---- MODULE Spec2Model ----
(***************************************************************************)
(* Ant colony TSP solver (lr4): Graph, AntColonySolver::RunSequential and  *)
(* AntColonySolver::RunParallel.                                           *)
(*                                                                         *)
(* Numbers.  Edge weights, tour lengths and params.q are integers counted  *)
(* in units of 5e-10, so that the 1e-9 tolerance of UpdateBest is 2 units  *)
(* and two lengths can differ by less than the tolerance.  +infinity is    *)
(* the sentinel kInfinity, larger than every finite length of the model.   *)
(* Pheromone and delta entries are doubles: a finite value a + b * 1e-12   *)
(* with a and b exact rationals <<numerator, denominator>>, +infinity, or  *)
(* NaN.  The random engine is a free choice among the outcomes that have   *)
(* positive probability.                                                   *)
(***************************************************************************)
EXTENDS Integers, Sequences, FiniteSets, TLC

\* ------------------------------------------------------------------ bounds
MaxAnts == 2
MaxIterations == 2
MaxThreads == 2
MaxElapsed == 1
\* the most tours one run constructs: ants * iterations
MaxTours == 4

\* ------------------------------------------------------- program constants
kInfinity == 1000000000
kEps == 2
kImproveGap == 2
kAgreeTol == 2000000
kInitialPheromone == 1
kGT == 62
kMinus == 45

\* ---------------------------------------------------------------- rationals
Abs(x) == IF x < 0 THEN -x ELSE x

RECURSIVE GCD(_, _)
GCD(a, b) == IF b = 0 THEN a ELSE GCD(b, a % b)

Rat(n, d) ==
  LET g == GCD(Abs(n), Abs(d))
      s == IF d < 0 THEN -1 ELSE 1
  IN  IF n = 0 THEN <<0, 1>> ELSE <<s * (n \div g), s * (d \div g)>>

RAdd(x, y) == Rat(x[1] * y[2] + y[1] * x[2], x[2] * y[2])
RMul(x, y) == Rat(x[1] * y[1], x[2] * y[2])
RZero == <<0, 1>>
ROne == <<1, 1>>

\* ------------------------------------------------------------------ doubles
Fin(a, b) == [k |-> "fin", a |-> a, b |-> b]
FInf == [k |-> "inf", a |-> RZero, b |-> RZero]
FNaN == [k |-> "nan", a |-> RZero, b |-> RZero]
FZero == Fin(RZero, RZero)
\* the clamp floor 1e-12
FFloor == Fin(RZero, ROne)

\* x + y (the only infinity the solver produces is +infinity)
FAdd(x, y) ==
  IF x.k = "nan" \/ y.k = "nan" THEN FNaN
  ELSE IF x.k = "inf" \/ y.k = "inf" THEN FInf
  ELSE Fin(RAdd(x.a, y.a), RAdd(x.b, y.b))

\* r * x for a finite rational r >= 0; 0 * infinity is NaN
FScale(r, x) ==
  IF x.k = "nan" THEN FNaN
  ELSE IF x.k = "inf" THEN (IF r[1] = 0 THEN FNaN ELSE FInf)
  ELSE Fin(RMul(r, x.a), RMul(r, x.b))

\* q / length for q > 0 and a finite length; q / 0.0 is +infinity
FDiv(q, len) == IF len = 0 THEN FInf ELSE Fin(Rat(q, len), RZero)

\* x < 1e-12 (false for NaN and for +infinity)
FLessFloor(x) ==
  /\ x.k = "fin"
  /\ \/ x.a[1] < 0
     \/ x.a[1] = 0 /\ x.b[1] < x.b[2]

IsFiniteF(x) == x.k = "fin"

\* ------------------------------------------------------------------ strings
\* std::string operator< on sequences of character codes
RECURSIVE LexLess(_, _)
LexLess(s, t) ==
  IF t = <<>> THEN FALSE
  ELSE IF s = <<>> THEN TRUE
  ELSE IF Head(s) < Head(t) THEN TRUE
  ELSE IF Head(s) > Head(t) THEN FALSE
  ELSE LexLess(Tail(s), Tail(t))

\* ------------------------------------------------------------------- Graph
RawEdge(from, to, weight, bidirectional) ==
  [from |-> from, to |-> to, weight |-> weight, bidirectional |-> bidirectional]

MinLabel(S) == CHOOSE l \in S : \A m \in S : m = l \/ LexLess(l, m)

RECURSIVE SortLabels(_)
SortLabels(S) ==
  IF S = {} THEN <<>>
  ELSE LET l == MinLabel(S) IN <<l>> \o SortLabels(S \ {l})

\* label_to_index_: the 0-based index of a label
IndexOf(labels, l) == (CHOOSE i \in 1..Len(labels) : labels[i] = l) - 1

RECURSIVE ApplyEdges(_, _, _)
ApplyEdges(adj, labels, edges) ==
  IF edges = <<>> THEN adj
  ELSE LET e == Head(edges)
           f == IndexOf(labels, e.from)
           t == IndexOf(labels, e.to)
           a1 == [adj EXCEPT ![f][t] = e.weight]
           a2 == IF e.bidirectional THEN [a1 EXCEPT ![t][f] = e.weight] ELSE a1
       IN  ApplyEdges(a2, labels, Tail(edges))

\* Graph::FromGraphviz on the RawEdges of the input lines; vertices are 0..N-1
FromGraphviz(edges) ==
  LET kept == SelectSeq(edges, LAMBDA e : e.from # <<>> /\ e.to # <<>>)
      ls == {kept[i].from : i \in 1..Len(kept)} \cup {kept[i].to : i \in 1..Len(kept)}
      sorted_labels == SortLabels(ls)
      n == Len(sorted_labels)
      adj0 == [i \in 0..(n - 1) |-> [j \in 0..(n - 1) |-> IF i = j THEN 0 ELSE kInfinity]]
  IN  [index_to_label |-> sorted_labels,
       adjacency |-> ApplyEdges(adj0, sorted_labels, kept)]

VertexCount(g) == Len(g.index_to_label)
Weight(g, from, to) == g.adjacency[from][to]
Label(g, index) == g.index_to_label[index + 1]

\* build_key lambda of CanonicalizeTour: start is 0-based as in the source
CycleAt(cycle, n, start, reverse, i) ==
  IF ~reverse THEN cycle[((start + i) % n) + 1]
  ELSE cycle[((((start % n) - i) + n) % n) + 1]

RECURSIVE BuildKeyFrom(_, _, _, _, _, _, _)
BuildKeyFrom(g, cycle, n, start, reverse, i, key) ==
  IF i = n THEN key
  ELSE LET l == Label(g, CycleAt(cycle, n, start, reverse, i))
           k2 == IF key # <<>> THEN key \o <<kGT>> \o l ELSE key \o l
       IN  BuildKeyFrom(g, cycle, n, start, reverse, i + 1, k2)

BuildKey(g, cycle, n, start, reverse) == BuildKeyFrom(g, cycle, n, start, reverse, 0, <<>>)

\* the shift loop: best is [key, shift, reverse]
RECURSIVE BestShift(_, _, _, _, _)
BestShift(g, cycle, n, shift, best) ==
  IF shift = n THEN best
  ELSE LET forward_key == BuildKey(g, cycle, n, shift, FALSE)
           b1 == IF LexLess(forward_key, best.key)
                 THEN [key |-> forward_key, shift |-> shift, reverse |-> FALSE]
                 ELSE best
           reverse_key == BuildKey(g, cycle, n, shift, TRUE)
           b2 == IF LexLess(reverse_key, b1.key)
                 THEN [key |-> reverse_key, shift |-> shift, reverse |-> TRUE]
                 ELSE b1
       IN  BestShift(g, cycle, n, shift + 1, b2)

\* CanonicalizeTour without the pop_back of lines 162-164
CanonicalizeTour_NoPop(g, tour) ==
  IF Len(tour) <= 1 THEN tour
  ELSE LET cycle == tour
           n == Len(cycle)
           best == BestShift(g, cycle, n, 0,
                     [key |-> BuildKey(g, cycle, n, 0, FALSE), shift |-> 0, reverse |-> FALSE])
           result == [i \in 1..n |-> CycleAt(cycle, n, best.shift, best.reverse, i - 1)]
       IN  result \o <<result[1]>>

\* (the cycle.empty() return of line 165 cannot be taken: a tour of two or
\* more elements keeps at least one after pop_back)
CanonicalizeTour(g, tour) ==
  IF Len(tour) <= 1 THEN tour
  ELSE LET cycle == IF Head(tour) = tour[Len(tour)]
                    THEN SubSeq(tour, 1, Len(tour) - 1) ELSE tour
           n == Len(cycle)
           best == BestShift(g, cycle, n, 0,
                     [key |-> BuildKey(g, cycle, n, 0, FALSE), shift |-> 0, reverse |-> FALSE])
           result == [i \in 1..n |-> CycleAt(cycle, n, best.shift, best.reverse, i - 1)]
       IN  result \o <<result[1]>>

\* ------------------------------------------------------- AntColonySolver
\* sign classes of the doubles of ConstructSolution: "zero", "pos", "inf", "nan"
FClass(x) ==
  IF x.k # "fin" THEN x.k
  ELSE IF x.a[1] > 0 \/ (x.a[1] = 0 /\ x.b[1] > 0) THEN "pos" ELSE "zero"

\* std::pow(base, exponent) on sign classes, for an integer exponent
PowClass(c, e) ==
  IF e = 0 THEN "pos"
  ELSE IF c = "nan" THEN "nan"
  ELSE IF c = "pos" THEN "pos"
  ELSE IF c = "zero" THEN (IF e > 0 THEN "zero" ELSE "inf")
  ELSE (IF e > 0 THEN "inf" ELSE "zero")

MulClass(c, d) ==
  IF c = "nan" \/ d = "nan" THEN "nan"
  ELSE IF (c = "zero" /\ d = "inf") \/ (c = "inf" /\ d = "zero") THEN "nan"
  ELSE IF c = "zero" \/ d = "zero" THEN "zero"
  ELSE IF c = "inf" \/ d = "inf" THEN "inf"
  ELSE "pos"

\* Heuristic(weight), as a sign class
Heuristic(weight) == IF weight <= 0 \/ weight = kInfinity THEN "zero" ELSE "pos"

\* AreEqual(a, b): fabs(a - b) <= kEps; fabs of an infinite difference is not
AreEqual(a, b) ==
  IF a = kInfinity \/ b = kInfinity THEN FALSE ELSE Abs(a - b) <= kEps

IsFinite(len) == len # kInfinity

AntPath(path, length) == [path |-> path, length |-> length]
DeadEnd == AntPath(<<>>, kInfinity)

RECURSIVE PathLengthFrom(_, _, _, _)
PathLengthFrom(g, path, i, length) ==
  IF i + 1 > Len(path) THEN length
  ELSE LET weight == Weight(g, path[i], path[i + 1])
       IN  IF ~IsFinite(weight) THEN kInfinity
           ELSE PathLengthFrom(g, path, i + 1, length + weight)

\* ComputePathLength with the loop stopping one edge early
ComputePathLength_SkipLast(g, path) ==
  IF Len(path) < 2 THEN kInfinity
  ELSE PathLengthFrom(g, SubSeq(path, 1, Len(path) - 1), 1, 0)

ComputePathLength(g, path) ==
  IF Len(path) < 2 THEN kInfinity ELSE PathLengthFrom(g, path, 1, 0)

\* Candidates without the visited test of lines 151-153
Candidates_NoVisited(g, p, ph, current, path) ==
  {next \in 0..(VertexCount(g) - 1) :
     LET tau == PowClass(FClass(ph[current][next]), p.alpha)
         eta == PowClass(Heuristic(Weight(g, current, next)), p.beta)
     IN  MulClass(tau, eta) # "zero"}

\* the vertices the inner loop of ConstructSolution pushes to candidates
Candidates(g, p, ph, current, path) ==
  {next \in 0..(VertexCount(g) - 1) :
     /\ \A i \in 1..Len(path) : path[i] # next
     /\ LET tau == PowClass(FClass(ph[current][next]), p.alpha)
            eta == PowClass(Heuristic(Weight(g, current, next)), p.beta)
        IN  MulClass(tau, eta) # "zero"}

\* the tour closed and totalled (lines 182-188)
CloseTour(g, path) ==
  LET closed == path \o <<path[1]>>
      length == ComputePathLength(g, closed)
  IN  IF ~IsFinite(length) THEN DeadEnd ELSE AntPath(closed, length)

\* every AntPath the step loop can return from a partial path; the draw of
\* dist(rng) selects any candidate
RECURSIVE StepFrom(_, _, _, _, _)
StepFrom(g, p, ph, path, step) ==
  IF step >= VertexCount(g) THEN {CloseTour(g, path)}
  ELSE LET candidates == Candidates(g, p, ph, path[Len(path)], path)
       IN  IF candidates = {} THEN {DeadEnd}
           ELSE UNION {StepFrom(g, p, ph, path \o <<c>>, step + 1) : c \in candidates}

\* ConstructSolution: the set of AntPaths it can return, over all draws of rng
ConstructSolution(g, p, ph) ==
  LET n == VertexCount(g)
  IN  IF n = 0 THEN {DeadEnd}
      ELSE UNION {StepFrom(g, p, ph, <<s>>, 1) : s \in 0..(n - 1)}

RECURSIVE DepositFrom(_, _, _, _)
DepositFrom(path, deposit, deltas, i) ==
  IF i + 1 > Len(path) THEN deltas
  ELSE LET from == path[i]
           to == path[i + 1]
       IN  DepositFrom(path, deposit,
             [deltas EXCEPT ![from][to] = FAdd(deltas[from][to], deposit)], i + 1)

DepositPheromone(path, q, deltas) ==
  IF Len(path.path) < 2 \/ ~IsFinite(path.length) THEN deltas
  ELSE DepositFrom(path.path, FDiv(q, path.length), deltas, 1)

\* the string UpdateBest builds from the canonical tour
RECURSIVE SerializeFrom(_, _, _, _)
SerializeFrom(g, canonical, i, serialized) ==
  IF i > Len(canonical) THEN serialized
  ELSE LET s1 == IF i # 1 THEN serialized \o <<kMinus, kGT>> ELSE serialized
       IN  SerializeFrom(g, canonical, i + 1, s1 \o Label(g, canonical[i]))

Serialize(g, canonical) == SerializeFrom(g, canonical, 1, <<>>)

Contains(seq, x) == \E i \in 1..Len(seq) : seq[i] = x

\* UpdateBest replacing only an empty best-set: without the second test of
\* line 220
UpdateBest_KeepFirst(g, candidate, r) ==
  IF candidate.path = <<>> \/ ~IsFinite(candidate.length) THEN r
  ELSE LET canonical == CanonicalizeTour(g, candidate.path)
           serialized == Serialize(g, canonical)
       IN  IF r.best_paths = <<>>
           THEN [r EXCEPT !.best_length = candidate.length,
                          !.best_paths = <<canonical>>,
                          !.best_paths_labels = <<serialized>>]
           ELSE IF AreEqual(candidate.length, r.best_length)
                   /\ ~Contains(r.best_paths_labels, serialized)
           THEN [r EXCEPT !.best_paths = Append(@, canonical),
                          !.best_paths_labels = Append(@, serialized)]
           ELSE r

\* UpdateBest without the std::find of line 227
UpdateBest_NoDedup(g, candidate, r) ==
  IF candidate.path = <<>> \/ ~IsFinite(candidate.length) THEN r
  ELSE LET canonical == CanonicalizeTour(g, candidate.path)
           serialized == Serialize(g, canonical)
       IN  IF r.best_paths = <<>> \/ candidate.length + kImproveGap < r.best_length
           THEN [r EXCEPT !.best_length = candidate.length,
                          !.best_paths = <<canonical>>,
                          !.best_paths_labels = <<serialized>>]
           ELSE IF AreEqual(candidate.length, r.best_length)
           THEN [r EXCEPT !.best_paths = Append(@, canonical),
                          !.best_paths_labels = Append(@, serialized)]
           ELSE r

\* UpdateBest on the three fields of a TourResult r
UpdateBest(g, candidate, r) ==
  IF candidate.path = <<>> \/ ~IsFinite(candidate.length) THEN r
  ELSE LET canonical == CanonicalizeTour(g, candidate.path)
           serialized == Serialize(g, canonical)
       IN  IF r.best_paths = <<>> \/ candidate.length + kImproveGap < r.best_length
           THEN [r EXCEPT !.best_length = candidate.length,
                          !.best_paths = <<canonical>>,
                          !.best_paths_labels = <<serialized>>]
           ELSE IF AreEqual(candidate.length, r.best_length)
                   /\ ~Contains(r.best_paths_labels, serialized)
           THEN [r EXCEPT !.best_paths = Append(@, canonical),
                          !.best_paths_labels = Append(@, serialized)]
           ELSE r

InitialPheromone(g) ==
  LET n == VertexCount(g)
  IN  [i \in 0..(n - 1) |-> [j \in 0..(n - 1) |-> Fin(<<kInitialPheromone, 1>>, RZero)]]

ZeroMatrix(g) ==
  LET n == VertexCount(g)
  IN  [i \in 0..(n - 1) |-> [j \in 0..(n - 1) |-> FZero]]

\* pheromone[i][j] = (1 - evaporation) * pheromone[i][j] + delta[i][j], clamped
Evaporate(g, p, ph, d) ==
  LET n == VertexCount(g)
      keep == RAdd(ROne, <<-p.evaporation[1], p.evaporation[2]>>)
  IN  [i \in 0..(n - 1) |-> [j \in 0..(n - 1) |->
        LET v == FAdd(FScale(keep, ph[i][j]), d[i][j])
        IN  IF FLessFloor(v) THEN FFloor ELSE v]]

\* TourResult{} (ant_colony_solver.h)
EmptyResult ==
  [best_length |-> kInfinity, best_paths |-> <<>>, best_paths_labels |-> <<>>,
   elapsed_ms |-> 0]

\* ------------------------------------------------------------------ inputs
A == <<65>>
B == <<66>>
C == <<67>>
D == <<68>>

\* the lines of TestParallelSolverAgreement
TriangleLines ==
  <<RawEdge(<<>>, <<>>, 1, FALSE),
    RawEdge(A, B, 4, FALSE), RawEdge(B, A, 4, FALSE),
    RawEdge(A, C, 1, FALSE), RawEdge(C, A, 1, FALSE),
    RawEdge(B, C, 3, FALSE), RawEdge(C, B, 3, FALSE)>>
\* one vertex: a line from A to A
SelfLoopLines == <<RawEdge(A, A, 2, FALSE)>>
SelfLoopZeroLines == <<RawEdge(A, A, 0, FALSE)>>
\* two vertices, the way back has a negative weight: the tour totals 0
NegativeBackLines == <<RawEdge(A, B, 1, FALSE), RawEdge(B, A, -1, FALSE)>>
\* two vertices, the way back has weight 0
ZeroBackLines == <<RawEdge(A, B, 1, FALSE), RawEdge(B, A, 0, FALSE)>>
\* the same with a tour that totals -2
NegativeTotalLines == <<RawEdge(A, B, 1, FALSE), RawEdge(B, A, -3, FALSE)>>
\* only the directed cycle A -> C -> B -> A
ReverseCycleLines == <<RawEdge(A, C, 1, FALSE), RawEdge(C, B, 1, FALSE), RawEdge(B, A, 1, FALSE)>>
\* A -> B -> C -> A totals 10, A -> C -> B -> A totals 11: less than kEps apart
NearTieLines ==
  <<RawEdge(A, B, 3, FALSE), RawEdge(B, C, 3, FALSE), RawEdge(C, A, 4, FALSE),
    RawEdge(A, C, 4, FALSE), RawEdge(C, B, 3, FALSE), RawEdge(B, A, 4, FALSE)>>
\* C has no outgoing edge
NoWayOutLines == <<RawEdge(A, B, 1, FALSE), RawEdge(B, C, 1, FALSE), RawEdge(A, C, 1, FALSE)>>
\* A -> B -> C -> A totals 10, the way round A -> C -> B -> A totals 20
OneWayCheaperLines ==
  <<RawEdge(A, B, 3, FALSE), RawEdge(B, C, 3, FALSE), RawEdge(C, A, 4, FALSE),
    RawEdge(A, C, 6, FALSE), RawEdge(C, B, 7, FALSE), RawEdge(B, A, 7, FALSE)>>
\* the single directed Hamiltonian cycle A -> B -> C -> D -> A
Cycle4Lines ==
  <<RawEdge(A, B, 1, FALSE), RawEdge(B, C, 2, FALSE), RawEdge(C, D, 3, FALSE),
    RawEdge(D, A, 4, FALSE)>>

\* four vertices with two directed Hamiltonian cycles of the same length,
\* A -> B -> C -> D -> A and A -> C -> B -> D -> A
TwoCyclesLines ==
  <<RawEdge(A, B, 1, FALSE), RawEdge(B, C, 1, FALSE), RawEdge(C, D, 1, FALSE),
    RawEdge(D, A, 1, FALSE), RawEdge(A, C, 1, FALSE), RawEdge(C, B, 1, FALSE),
    RawEdge(B, D, 1, FALSE)>>

Inputs ==
  {<<>>, SelfLoopLines, SelfLoopZeroLines, NegativeBackLines, ZeroBackLines,
   NegativeTotalLines, ReverseCycleLines, NearTieLines, NoWayOutLines, OneWayCheaperLines, Cycle4Lines, TwoCyclesLines}
\* the inputs of the two runs on the same input
PairInputs == {NearTieLines, TwoCyclesLines}

Alphas == {1}
\* beta = 0 makes std::pow(Heuristic(weight), beta) equal to 1 for every weight
Betas == {0, 3}
Evaporations == {<<1, 2>>, <<1, 1>>}
Qs == {6}

Params ==
  {p \in [ants : 1..MaxAnts, iterations : 1..MaxIterations, alpha : Alphas,
          beta : Betas, evaporation : Evaporations, q : Qs] :
     p.ants * p.iterations <= MaxTours}
DefaultParams ==
  [ants |-> 1, iterations |-> 1, alpha |-> 1, beta |-> 3, evaporation |-> <<1, 2>>, q |-> 6]

ElapsedValues == 0..MaxElapsed

\* ------------------------------------------------------------------- state
VARIABLES
  graph,               \* graph_ of the solver
  params,              \* the AntColonyParameters of the call
  thread_count,        \* the thread_count of RunParallel
  mode,                \* "none", "seq" (RunSequential) or "par" (RunParallel)
  pc,                  \* position of the calling thread
  iteration,           \* the iteration counter
  ant,                 \* the ant counter of RunSequential
  pheromone,
  delta,
  result,              \* the TourResult being built
  local_deltas,        \* per worker delta buffers of the iteration
  wpc,                 \* position of each worker thread of the iteration
  w_ant,               \* the ant counter of each worker: its ConstructSolution calls
  thread_best_length,
  thread_best_paths,
  w_idx,               \* position of each worker in its thread_best_paths loop
  best_mutex,          \* the holder of best_mutex, or NoOwner
  spawn_t,             \* t of the emplace_back loop
  join_t,              \* index of the join loop
  merge_order,         \* history: the workers in the order they locked best_mutex
  harness,             \* "single", "pair" or "agree": what the caller runs
  result2,             \* pair: the result of a second RunParallel on the same input
  merged2,             \* pair: the workers that merged into result2
  seq_result,          \* agree: the result of the RunSequential call
  min_length,          \* history: the least length ConstructSolution returned in the run
  path_empty,          \* path.path.empty() of the latest pass of the ant loop (line 37)
  w_path_empty,        \* the same for each worker (line 86)
  shared_delta,        \* history: one buffer that takes every deposit of the iteration
  tour_in,             \* graph: the argument of a CanonicalizeTour call
  tour_canonical,      \* graph: what CanonicalizeTour returned for tour_in
  tour_other           \* graph: what it returned for a rotation or the reverse

vars ==
  <<graph, params, thread_count, mode, pc, iteration, ant, pheromone, delta, result,
    local_deltas, wpc, w_ant, thread_best_length, thread_best_paths, w_idx,
    best_mutex, spawn_t, join_t, merge_order, harness, result2, merged2, seq_result,
    min_length, path_empty, w_path_empty, shared_delta,
    tour_in, tour_canonical, tour_other>>

workerVars ==
  <<local_deltas, wpc, w_ant, thread_best_length, thread_best_paths, w_idx,
    best_mutex, spawn_t, join_t, merge_order, merged2, w_path_empty,
    shared_delta>>

canonVars == <<tour_in, tour_canonical, tour_other>>

NoOwner == -1
Threads == 0..(thread_count - 1)

InitWith(h, inputs) ==
  /\ graph \in {FromGraphviz(lines) : lines \in inputs}
  /\ params = DefaultParams
  /\ thread_count = 0
  /\ mode = "none"
  /\ pc = "start"
  /\ iteration = 0
  /\ ant = 0
  /\ pheromone = <<>>
  /\ delta = <<>>
  /\ result = EmptyResult
  /\ local_deltas = <<>>
  /\ wpc = <<>>
  /\ w_ant = <<>>
  /\ thread_best_length = <<>>
  /\ thread_best_paths = <<>>
  /\ w_idx = <<>>
  /\ best_mutex = NoOwner
  /\ spawn_t = 0
  /\ join_t = 0
  /\ merge_order = <<>>
  /\ harness = h
  /\ result2 = EmptyResult
  /\ merged2 = <<>>
  /\ seq_result = EmptyResult
  /\ min_length = kInfinity
  /\ path_empty = FALSE
  /\ w_path_empty = <<>>
  /\ shared_delta = <<>>
  /\ tour_in = <<>>
  /\ tour_canonical = <<>>
  /\ tour_other = <<>>

Init == InitWith("single", Inputs)

\* --------------------------------------------------------- RunSequential
RunSequentialBegin(p) ==
  /\ pc = "start"
  /\ params' = p
  /\ mode' = "seq"
  /\ result' = EmptyResult
  /\ pheromone' = InitialPheromone(graph)
  /\ iteration' = 0
  /\ pc' = "seq_loop"
  /\ min_length' = kInfinity
  /\ UNCHANGED <<graph, thread_count, ant, delta, workerVars, harness, canonVars,
                 path_empty, result2, seq_result>>

SeqIterationBegin ==
  /\ pc = "seq_loop"
  /\ iteration < params.iterations
  /\ delta' = ZeroMatrix(graph)
  /\ ant' = 0
  /\ pc' = "seq_ants"
  /\ UNCHANGED <<graph, params, thread_count, mode, iteration, pheromone, result,
                 workerVars, harness, canonVars, min_length, path_empty, result2, seq_result>>

\* the test of the ant loop (line 35): a pass is due, or the loop is over
SeqAntDue == pc = "seq_ants" /\ ant < params.ants
SeqAntsOver == pc = "seq_ants" /\ ant >= params.ants

\* the ant loop with break in the place of the continue of line 38
SeqAnt_BreakOnDeadEnd ==
  /\ pc = "seq_ants"
  /\ ant < params.ants
  /\ \E path \in ConstructSolution(graph, params, pheromone) :
       /\ path_empty' = (path.path = <<>>)
       /\ min_length' = IF path.length < min_length THEN path.length ELSE min_length
       /\ IF path.path = <<>>
          THEN ant' = params.ants /\ UNCHANGED <<delta, result>>
          ELSE /\ ant' = ant + 1
               /\ delta' = DepositPheromone(path, params.q, delta)
               /\ result' = UpdateBest(graph, path, result)
  /\ UNCHANGED <<graph, params, thread_count, mode, pc, iteration, pheromone,
                 workerVars, harness, canonVars, result2, seq_result>>

\* one pass of the ant loop (lines 35-42)
SeqAnt ==
  /\ SeqAntDue
  /\ \E path \in ConstructSolution(graph, params, pheromone) :
       /\ path_empty' = (path.path = <<>>)
       /\ min_length' = IF path.length < min_length THEN path.length ELSE min_length
       /\ IF path.path = <<>>
          THEN UNCHANGED <<delta, result>>
          ELSE /\ delta' = DepositPheromone(path, params.q, delta)
               /\ result' = UpdateBest(graph, path, result)
  /\ ant' = ant + 1
  /\ UNCHANGED <<graph, params, thread_count, mode, pc, iteration, pheromone,
                 workerVars, harness, canonVars, result2, seq_result>>

\* the pheromone update that ends an iteration (lines 43-50); delta goes
\* out of scope
SeqEvaporate ==
  /\ SeqAntsOver
  /\ pheromone' = Evaporate(graph, params, pheromone, delta)
  /\ iteration' = iteration + 1
  /\ delta' = <<>>
  /\ ant' = 0
  /\ path_empty' = FALSE
  /\ pc' = "seq_loop"
  /\ UNCHANGED <<graph, params, thread_count, mode, result,
                 workerVars, harness, canonVars, min_length, result2, seq_result>>

SeqFinish ==
  /\ pc = "seq_loop"
  /\ iteration >= params.iterations
  /\ \E e \in ElapsedValues : result' = [result EXCEPT !.elapsed_ms = e]
  /\ pc' = "done"
  /\ UNCHANGED <<graph, params, thread_count, mode, iteration, ant, pheromone, delta,
                 workerVars, harness, canonVars, min_length, path_empty, result2, seq_result>>

\* ----------------------------------------------------------- RunParallel
\* assigned without the remainder term of line 76
Assigned_NoRemainder(p, tc, t) == p.ants \div tc

\* assigned of worker t (lines 73-76)
Assigned(p, tc, t) ==
  LET base == p.ants \div tc
      remainder == p.ants % tc
  IN  base + (IF t < remainder THEN 1 ELSE 0)

\* a lock that never waits
CanLock_Always(m) == TRUE

\* std::lock_guard on best_mutex can be constructed
CanLock(m) == m = NoOwner

\* RunParallel without the early return of lines 60-62
RunParallelEnter_NoEarlyReturn(p, tc) ==
  /\ params' = p
  /\ thread_count' = tc
  /\ mode' = "par"
  /\ result' = EmptyResult
  /\ min_length' = kInfinity
  /\ pheromone' = InitialPheromone(graph)
  /\ iteration' = 0
  /\ best_mutex' = NoOwner
  /\ pc' = "par_loop"
  /\ UNCHANGED <<graph, ant, delta, local_deltas, wpc, w_ant, thread_best_length,
                 thread_best_paths, w_idx, spawn_t, join_t, merge_order, w_path_empty, shared_delta,
                 harness, canonVars, path_empty, result2, merged2>>

\* lines 59-65: the early return for thread_count == 0, else the set-up
RunParallelEnter(p, tc) ==
  /\ params' = p
  /\ thread_count' = tc
  /\ mode' = "par"
  /\ result' = EmptyResult
  /\ min_length' = kInfinity
  /\ IF tc = 0
     THEN /\ pc' = "done"
          /\ UNCHANGED <<pheromone, iteration, best_mutex>>
     ELSE /\ pheromone' = InitialPheromone(graph)
          /\ iteration' = 0
          /\ best_mutex' = NoOwner
          /\ pc' = "par_loop"
  /\ UNCHANGED <<graph, ant, delta, local_deltas, wpc, w_ant, thread_best_length,
                 thread_best_paths, w_idx, spawn_t, join_t, merge_order, w_path_empty, shared_delta,
                 harness, canonVars, path_empty, result2, merged2>>

RunParallelBegin(p, tc) ==
  /\ pc = "start"
  /\ RunParallelEnter(p, tc)
  /\ UNCHANGED seq_result

\* the allocations that open an iteration (lines 67-74)
ParIterationBegin ==
  /\ pc = "par_loop"
  /\ iteration < params.iterations
  /\ delta' = ZeroMatrix(graph)
  /\ local_deltas' = [t \in Threads |-> ZeroMatrix(graph)]
  /\ wpc' = [t \in Threads |-> "idle"]
  /\ w_ant' = [t \in Threads |-> 0]
  /\ thread_best_length' = [t \in Threads |-> kInfinity]
  /\ thread_best_paths' = [t \in Threads |-> <<>>]
  /\ w_idx' = [t \in Threads |-> 1]
  /\ merged2' = [t \in Threads |-> FALSE]
  /\ w_path_empty' = [t \in Threads |-> FALSE]
  /\ shared_delta' = ZeroMatrix(graph)
  /\ merge_order' = <<>>
  /\ spawn_t' = 0
  /\ pc' = "par_spawn"
  /\ UNCHANGED <<graph, params, thread_count, mode, iteration, ant, pheromone, result,
                 best_mutex, join_t,
                 harness, canonVars, min_length, path_empty, result2, seq_result>>

\* workers.emplace_back: thread spawn_t starts
ParSpawn ==
  /\ pc = "par_spawn"
  /\ spawn_t < thread_count
  /\ wpc' = [wpc EXCEPT ![spawn_t] = "begin"]
  /\ spawn_t' = spawn_t + 1
  /\ IF spawn_t + 1 < thread_count
     THEN UNCHANGED <<pc, join_t>>
     ELSE pc' = "par_join" /\ join_t' = 0
  /\ UNCHANGED <<graph, params, thread_count, mode, iteration, ant, pheromone, delta,
                 result, local_deltas, w_ant, thread_best_length, thread_best_paths,
                 w_idx, best_mutex, merge_order, w_path_empty, shared_delta,
                 harness, canonVars, min_length, path_empty, result2, merged2, seq_result>>

\* the head of the worker lambda (lines 78-83)
WorkerBegin(t) ==
  /\ wpc[t] = "begin"
  /\ IF Assigned(params, thread_count, t) = 0
     THEN wpc' = [wpc EXCEPT ![t] = "done"]
     ELSE wpc' = [wpc EXCEPT ![t] = "ants"]
  /\ w_ant' = [w_ant EXCEPT ![t] = 0]
  /\ thread_best_length' = [thread_best_length EXCEPT ![t] = kInfinity]
  /\ thread_best_paths' = [thread_best_paths EXCEPT ![t] = <<>>]
  /\ UNCHANGED <<graph, params, thread_count, mode, pc, iteration, ant, pheromone,
                 delta, result, local_deltas, w_idx, best_mutex, spawn_t, join_t,
                 merge_order, w_path_empty, shared_delta,
                 harness, canonVars, min_length, path_empty, result2, merged2, seq_result>>

\* the thread local best-set after one more path (lines 90-96)
ThreadBest(path, len, paths) ==
  IF path.length + kImproveGap < len THEN [length |-> path.length, paths |-> <<path>>]
  ELSE IF AreEqual(path.length, len) THEN [length |-> len, paths |-> Append(paths, path)]
  ELSE [length |-> len, paths |-> paths]

\* one pass of the worker's ant loop (lines 84-97) and, after the last pass,
\* the test of line 98
WorkerAnt(t) ==
  /\ wpc[t] = "ants"
  /\ w_ant[t] < Assigned(params, thread_count, t)
  /\ \E path \in ConstructSolution(graph, params, pheromone) :
       LET tb == IF path.path = <<>>
                 THEN [length |-> thread_best_length[t], paths |-> thread_best_paths[t]]
                 ELSE ThreadBest(path, thread_best_length[t], thread_best_paths[t])
       IN  /\ local_deltas' =
                IF path.path = <<>> THEN local_deltas
                ELSE [local_deltas EXCEPT ![t] = DepositPheromone(path, params.q, @)]
           /\ thread_best_length' = [thread_best_length EXCEPT ![t] = tb.length]
           /\ thread_best_paths' = [thread_best_paths EXCEPT ![t] = tb.paths]
           /\ wpc' = IF w_ant[t] + 1 < Assigned(params, thread_count, t) THEN wpc
                     ELSE IF tb.paths # <<>> THEN [wpc EXCEPT ![t] = "lock"]
                     ELSE [wpc EXCEPT ![t] = "done"]
           /\ w_path_empty' = [w_path_empty EXCEPT ![t] = (path.path = <<>>)]
           /\ shared_delta' =
                IF path.path = <<>> THEN shared_delta
                ELSE DepositPheromone(path, params.q, shared_delta)
           /\ min_length' = IF path.length < min_length THEN path.length ELSE min_length
  /\ w_ant' = [w_ant EXCEPT ![t] = @ + 1]
  /\ UNCHANGED <<graph, params, thread_count, mode, pc, iteration, ant, pheromone,
                 delta, result, w_idx, best_mutex, spawn_t, join_t, merge_order,
                 harness, canonVars, path_empty, result2, merged2, seq_result>>

\* std::lock_guard<std::mutex> lock(best_mutex) (line 99)
WorkerLock(t) ==
  /\ wpc[t] = "lock"
  /\ CanLock(best_mutex)
  /\ best_mutex' = t
  /\ wpc' = [wpc EXCEPT ![t] = "merge"]
  /\ w_idx' = [w_idx EXCEPT ![t] = 1]
  /\ merge_order' = Append(merge_order, t)
  /\ w_path_empty' = [w_path_empty EXCEPT ![t] = FALSE]
  /\ shared_delta' = shared_delta
  /\ UNCHANGED <<graph, params, thread_count, mode, pc, iteration, ant, pheromone,
                 delta, result, local_deltas, w_ant, thread_best_length,
                 thread_best_paths, spawn_t, join_t,
                 harness, canonVars, min_length, path_empty, result2, merged2,
                 seq_result>>

\* the test of the loop over thread_best_paths (line 100): a pass is due
WorkerUpdateBestDue(t) == wpc[t] = "merge" /\ w_idx[t] <= Len(thread_best_paths[t])

\* one pass of the loop over thread_best_paths (lines 100-102)
WorkerUpdateBest(t) ==
  /\ WorkerUpdateBestDue(t)
  /\ result' = UpdateBest(graph, thread_best_paths[t][w_idx[t]], result)
  /\ w_idx' = [w_idx EXCEPT ![t] = @ + 1]
  /\ UNCHANGED <<graph, params, thread_count, mode, pc, iteration, ant, pheromone,
                 delta, local_deltas, wpc, w_ant, thread_best_length,
                 thread_best_paths, best_mutex, spawn_t, join_t, merge_order, w_path_empty, shared_delta,
                 harness, canonVars, min_length, path_empty, result2, merged2, seq_result>>

\* pair: worker t of the second run has folded its best-set into result2
Merged2(t) == harness = "pair" => merged2[t]

\* the lambda returning with best_mutex still locked
WorkerUnlock_NoRelease(t) ==
  /\ wpc[t] = "merge"
  /\ w_idx[t] > Len(thread_best_paths[t])
  /\ Merged2(t)
  /\ wpc' = [wpc EXCEPT ![t] = "done"]
  /\ thread_best_length' = [thread_best_length EXCEPT ![t] = kInfinity]
  /\ thread_best_paths' = [thread_best_paths EXCEPT ![t] = <<>>]
  /\ w_idx' = [w_idx EXCEPT ![t] = 1]
  /\ UNCHANGED <<graph, params, thread_count, mode, pc, iteration, ant, pheromone,
                 delta, result, local_deltas, w_ant, best_mutex, spawn_t, join_t,
                 merge_order, w_path_empty, shared_delta, harness, canonVars, min_length,
                 path_empty, result2, merged2, seq_result>>

\* the lock_guard goes out of scope and the lambda returns (lines 103-104);
\* the locals of the lambda are gone
WorkerUnlock(t) ==
  /\ wpc[t] = "merge"
  /\ w_idx[t] > Len(thread_best_paths[t])
  /\ Merged2(t)
  /\ best_mutex' = NoOwner
  /\ wpc' = [wpc EXCEPT ![t] = "done"]
  /\ thread_best_length' = [thread_best_length EXCEPT ![t] = kInfinity]
  /\ thread_best_paths' = [thread_best_paths EXCEPT ![t] = <<>>]
  /\ w_idx' = [w_idx EXCEPT ![t] = 1]
  /\ UNCHANGED <<graph, params, thread_count, mode, pc, iteration, ant, pheromone,
                 delta, result, local_deltas, w_ant, spawn_t, join_t, merge_order, w_path_empty, shared_delta,
                 harness, canonVars, min_length, path_empty,
                 result2, merged2, seq_result>>

\* worker.join() of the join loop (lines 106-108)
ParJoin ==
  /\ pc = "par_join"
  /\ join_t < thread_count
  /\ wpc[join_t] = "done"
  /\ wpc' = [wpc EXCEPT ![join_t] = "joined"]
  /\ join_t' = join_t + 1
  /\ pc' = IF join_t + 1 < thread_count THEN pc ELSE "par_merge"
  /\ UNCHANGED <<graph, params, thread_count, mode, iteration, ant, pheromone, delta,
                 result, local_deltas, w_ant, thread_best_length, thread_best_paths,
                 w_idx, best_mutex, spawn_t, merge_order, w_path_empty, shared_delta,
                 harness, canonVars, min_length, path_empty, result2, merged2,
                 seq_result>>

\* the merge of lines 109-115 with = in the place of += in line 112
SumDeltas_Overwrite(g, d, locals, t) ==
  IF Len(locals) = 0 THEN d ELSE locals[Len(locals)]

RECURSIVE SumDeltas(_, _, _, _)
SumDeltas(g, d, locals, t) ==
  IF t >= Len(locals) THEN d
  ELSE LET n == VertexCount(g)
           d1 == [i \in 0..(n - 1) |-> [j \in 0..(n - 1) |->
                    FAdd(d[i][j], locals[t + 1][i][j])]]
       IN  SumDeltas(g, d1, locals, t + 1)

\* the local deltas summed into delta (lines 109-115)
ParMergeDeltas ==
  /\ pc = "par_merge"
  /\ delta' = SumDeltas(graph, delta, [t \in 1..thread_count |-> local_deltas[t - 1]], 0)
  /\ pc' = "par_update"
  /\ UNCHANGED <<graph, params, thread_count, mode, iteration, ant, pheromone, result,
                 workerVars, harness, canonVars, min_length, path_empty, result2, seq_result>>

\* the calling thread has left the loop of lines 109-115
ParUpdateDue == pc = "par_update"

\* the pheromone update of lines 116-123 placed before the join loop as well
ParEvaporate_BeforeJoin ==
  /\ pc \in {"par_join", "par_update"}
  /\ pheromone' = Evaporate(graph, params, pheromone, delta)
  /\ iteration' = iteration + 1
  /\ delta' = <<>>
  /\ local_deltas' = <<>>
  /\ wpc' = <<>>
  /\ w_ant' = <<>>
  /\ thread_best_length' = <<>>
  /\ thread_best_paths' = <<>>
  /\ w_idx' = <<>>
  /\ merged2' = <<>>
  /\ w_path_empty' = <<>>
  /\ shared_delta' = <<>>
  /\ merge_order' = <<>>
  /\ spawn_t' = 0
  /\ join_t' = 0
  /\ pc' = "par_loop"
  /\ UNCHANGED <<graph, params, thread_count, mode, ant, result, best_mutex,
                 harness, canonVars, min_length, path_empty, result2, seq_result>>

\* the pheromone update that ends an iteration (lines 116-123); delta,
\* local_deltas and workers go out of scope
ParEvaporate ==
  /\ ParUpdateDue
  /\ pheromone' = Evaporate(graph, params, pheromone, delta)
  /\ iteration' = iteration + 1
  /\ delta' = <<>>
  /\ local_deltas' = <<>>
  /\ wpc' = <<>>
  /\ w_ant' = <<>>
  /\ thread_best_length' = <<>>
  /\ thread_best_paths' = <<>>
  /\ w_idx' = <<>>
  /\ merged2' = <<>>
  /\ w_path_empty' = <<>>
  /\ shared_delta' = <<>>
  /\ merge_order' = <<>>
  /\ spawn_t' = 0
  /\ join_t' = 0
  /\ pc' = "par_loop"
  /\ UNCHANGED <<graph, params, thread_count, mode, ant, result, best_mutex,
                 harness, canonVars, min_length, path_empty, result2, seq_result>>

ParFinish ==
  /\ pc = "par_loop"
  /\ iteration >= params.iterations
  /\ \E e \in ElapsedValues : result' = [result EXCEPT !.elapsed_ms = e]
  /\ pc' = "done"
  /\ UNCHANGED <<graph, params, thread_count, mode, iteration, ant, pheromone, delta,
                 workerVars, harness, canonVars, min_length, path_empty, result2, seq_result>>

\* ------------------------------------------------- two runs, same input
\* A second RunParallel on the same (graph, params, thread_count).  Line 81
\* seeds the rng of worker t from (seed, t, iteration) alone, so the worker
\* draws the same tours in both runs and ends with the same thread_best_paths
\* and local delta; what the second run is free in is the order in which its
\* workers take best_mutex.  WorkerMerge2 is lines 98-103 of the second run.
RECURSIVE FoldBest(_, _, _, _)
FoldBest(g, paths, i, r) ==
  IF i > Len(paths) THEN r
  ELSE FoldBest(g, paths, i + 1, UpdateBest(g, paths[i], r))

WorkerMerge2(t) ==
  /\ harness = "pair"
  /\ wpc[t] \in {"lock", "merge"}
  /\ ~merged2[t]
  /\ result2' = FoldBest(graph, thread_best_paths[t], 1, result2)
  /\ merged2' = [merged2 EXCEPT ![t] = TRUE]
  /\ UNCHANGED <<graph, params, thread_count, mode, pc, iteration, ant, pheromone,
                 delta, result, local_deltas, wpc, w_ant, thread_best_length,
                 thread_best_paths, w_idx, best_mutex, spawn_t, join_t, merge_order, w_path_empty, shared_delta,
                 harness, canonVars, min_length, path_empty, seq_result>>

\* ------------------------------------- TestParallelSolverAgreement harness
\* lines 71-72 of tests/test_main.cpp: RunSequential has returned, its result
\* is kept in seq and RunParallel is called with the same params
TestCallParallel(tc) ==
  /\ harness = "agree"
  /\ pc = "done"
  /\ mode = "seq"
  /\ seq_result' = result
  /\ RunParallelEnter(params, tc)

\* complete 3-vertex graphs with symmetric positive weights
MilliTriangleLines ==
  <<RawEdge(A, B, 8000000, TRUE), RawEdge(A, C, 2000000, TRUE),
    RawEdge(C, B, 6000000, TRUE)>>
AgreeInputs == {TriangleLines, MilliTriangleLines}
AgreeParams ==
  {p \in [ants : 1..MaxAnts, iterations : 1..MaxIterations, alpha : Alphas,
          beta : Betas, evaporation : Evaporations, q : {16000000}] :
     p.ants * p.iterations <= MaxTours}

\* ---------------------------------------------------------- specifications
SequentialStep ==
  \/ SeqIterationBegin
  \/ SeqAnt
  \/ SeqEvaporate
  \/ SeqFinish

ParallelStep ==
  \/ ParIterationBegin
  \/ ParSpawn
  \/ ParJoin
  \/ ParMergeDeltas
  \/ ParEvaporate
  \/ ParFinish
  \/ \E t \in DOMAIN wpc : WorkerBegin(t)
  \/ \E t \in DOMAIN wpc : WorkerAnt(t)
  \/ \E t \in DOMAIN wpc : WorkerLock(t)
  \/ \E t \in DOMAIN wpc : WorkerUpdateBest(t)
  \/ \E t \in DOMAIN wpc : WorkerUnlock(t)

Next ==
  \/ \E p \in Params : RunSequentialBegin(p)
  \/ \E p \in Params : \E tc \in 0..MaxThreads : RunParallelBegin(p, tc)
  \/ SequentialStep
  \/ ParallelStep

Spec == Init /\ [][Next]_vars

\* The threads of a run keep being scheduled: a thread whose next statement
\* stays executable executes it in the end.  This is weak fairness of each
\* thread's steps, WF_vars(A) = []<>~ENABLED <<A>>_vars \/ []<><<A>>_vars, with
\* ENABLED written out as the position of the thread: a thread can always take
\* its next step, except the calling thread in worker.join() (line 107) while
\* that worker runs, and a worker at the lock_guard (line 99) while the mutex
\* is held.
MainDue ==
  \/ pc \in {"seq_loop", "par_loop", "par_spawn", "par_merge"}
  \/ SeqAntDue
  \/ SeqAntsOver
  \/ ParUpdateDue
  \/ pc = "par_join" /\ join_t < thread_count /\ wpc[join_t] = "done"

MainStep ==
  \/ SequentialStep
  \/ ParIterationBegin
  \/ ParSpawn
  \/ ParJoin
  \/ ParMergeDeltas
  \/ ParEvaporate
  \/ ParFinish

WorkerDue(t) ==
  /\ t \in DOMAIN wpc
  /\ \/ wpc[t] \in {"begin", "ants", "merge"}
     \/ wpc[t] = "lock" /\ CanLock(best_mutex)

WorkerStep(t) ==
  /\ t \in DOMAIN wpc
  /\ \/ WorkerBegin(t)
     \/ WorkerAnt(t)
     \/ WorkerLock(t)
     \/ WorkerUpdateBest(t)
     \/ WorkerUnlock(t)

Fairness ==
  /\ []<>(~MainDue) \/ []<><<MainStep>>_vars
  /\ \A t \in 0..(MaxThreads - 1) :
       []<>(~WorkerDue(t)) \/ []<><<WorkerStep(t)>>_vars

SpecLive == Init /\ [][Next]_vars /\ Fairness

InitPair == InitWith("pair", PairInputs)

NextPair ==
  \/ \E p \in Params : \E tc \in 0..MaxThreads : RunParallelBegin(p, tc)
  \/ ParallelStep
  \/ \E t \in DOMAIN wpc : WorkerMerge2(t)

SpecPair == InitPair /\ [][NextPair]_vars

InitAgree == InitWith("agree", AgreeInputs)

NextAgree ==
  \/ \E p \in AgreeParams : RunSequentialBegin(p)
  \/ SequentialStep
  \/ \E tc \in 1..MaxThreads : TestCallParallel(tc)
  \/ ParallelStep

SpecAgree == InitAgree /\ [][NextAgree]_vars

\* ------------------------------------------------------------- Graph alone
\* A caller of Graph as TestGraphParsing is one: FromGraphviz on the lines of
\* a stream, then CanonicalizeTour on tours over the vertices of that graph.
X == <<88>>
\* the label A>A, as the lines  A -> "A>A"  and  "A>A" -> X  give it
AGtA == <<65, kGT, 65>>
GtLabelLines ==
  <<RawEdge(A, AGtA, 1, FALSE), RawEdge(AGtA, X, 1, FALSE), RawEdge(X, A, 1, FALSE)>>

GraphInputs ==
  Inputs \cup PairInputs \cup AgreeInputs \cup {GtLabelLines}

\* every std::vector<int> of at most N+1 vertices of g
Tours(g) ==
  LET n == VertexCount(g)
  IN  UNION {[1..k -> 0..(n - 1)] : k \in 0..(n + 1)}

\* the closed tour t started k places further round its cycle
Rotate(t, k) ==
  LET n == Len(t) - 1
      r == [i \in 1..n |-> t[((i - 1 + k) % n) + 1]]
  IN  r \o <<r[1]>>

\* the closed tour t walked the other way round
Reverse(t) == [i \in 1..Len(t) |-> t[Len(t) + 1 - i]]

IsClosedHamiltonian(g, t) ==
  LET n == VertexCount(g)
  IN  /\ n >= 1
      /\ Len(t) = n + 1
      /\ t[1] = t[n + 1]
      /\ \A v \in 0..(n - 1) : \E i \in 1..n : t[i] = v

\* Graph graph = Graph::FromGraphviz(input)
CallFromGraphviz(lines) ==
  /\ harness = "graph"
  /\ pc = "start"
  /\ graph' = FromGraphviz(lines)
  /\ pc' = "graph"
  /\ UNCHANGED <<params, thread_count, mode, iteration, ant, pheromone, delta, result,
                 workerVars, harness, result2, seq_result, min_length, path_empty,
                 canonVars>>

\* auto canonical = graph.CanonicalizeTour(t)
CallCanonicalizeTour(t) ==
  /\ harness = "graph"
  /\ pc = "graph"
  /\ tour_in' = t
  /\ tour_canonical' = CanonicalizeTour(graph, t)
  /\ pc' = "canonical"
  /\ UNCHANGED <<graph, params, thread_count, mode, iteration, ant, pheromone, delta,
                 result, workerVars, harness, result2, seq_result, min_length,
                 path_empty, tour_other>>

\* graph.CanonicalizeTour(canonical)
CallCanonicalizeAgain ==
  /\ harness = "graph"
  /\ pc = "canonical"
  /\ tour_other' = CanonicalizeTour(graph, tour_canonical)
  /\ pc' = "again"
  /\ UNCHANGED <<graph, params, thread_count, mode, iteration, ant, pheromone, delta,
                 result, workerVars, harness, result2, seq_result, min_length,
                 path_empty, tour_in, tour_canonical>>

\* graph.CanonicalizeTour on a rotation of a closed Hamiltonian tour
CallCanonicalizeRotation(k) ==
  /\ harness = "graph"
  /\ pc = "canonical"
  /\ IsClosedHamiltonian(graph, tour_in)
  /\ tour_other' = CanonicalizeTour(graph, Rotate(tour_in, k))
  /\ pc' = "rotation"
  /\ UNCHANGED <<graph, params, thread_count, mode, iteration, ant, pheromone, delta,
                 result, workerVars, harness, result2, seq_result, min_length,
                 path_empty, tour_in, tour_canonical>>

\* graph.CanonicalizeTour on the reverse of a closed Hamiltonian tour
CallCanonicalizeReverse ==
  /\ harness = "graph"
  /\ pc = "canonical"
  /\ IsClosedHamiltonian(graph, tour_in)
  /\ tour_other' = CanonicalizeTour(graph, Reverse(tour_in))
  /\ pc' = "reverse"
  /\ UNCHANGED <<graph, params, thread_count, mode, iteration, ant, pheromone, delta,
                 result, workerVars, harness, result2, seq_result, min_length,
                 path_empty, tour_in, tour_canonical>>

InitGraph == InitWith("graph", {<<>>})

NextGraph ==
  \/ \E lines \in GraphInputs : CallFromGraphviz(lines)
  \/ \E t \in Tours(graph) : CallCanonicalizeTour(t)
  \/ CallCanonicalizeAgain
  \/ \E k \in 1..(VertexCount(graph) - 1) : CallCanonicalizeRotation(k)
  \/ CallCanonicalizeReverse

SpecGraph == InitGraph /\ [][NextGraph]_vars

\* ------------------------------------------------------------------ claims
BestPaths == result.best_paths
BestLabels == result.best_paths_labels

\* C1: at the end of a run every tour of best_paths, its length recomputed
\* as the sum of Weight over its consecutive pairs, is within 1e-9 of
\* best_length.
C1_StoredToursHaveBestLength ==
  pc = "done" =>
    \A i \in 1..Len(BestPaths) :
      LET recomputed == PathLengthFrom(graph, BestPaths[i], 1, 0)
      IN  IsFinite(recomputed) /\ Abs(recomputed - result.best_length) <= kEps

IsHamiltonianTour(g, tour) ==
  LET n == VertexCount(g)
  IN  /\ Len(tour) = n + 1
      /\ tour[1] = tour[n + 1]
      /\ \A v \in 0..(n - 1) : Cardinality({i \in 1..n : tour[i] = v}) = 1

\* C2: in every state every tour of best_paths is closed, has N+1 elements
\* and holds each vertex 0..N-1 exactly once among its first N elements.
C2_BestPathsAreHamiltonian ==
  \A i \in 1..Len(BestPaths) : IsHamiltonianTour(graph, BestPaths[i])

C2_Witness ==
  /\ VertexCount(graph) = 4
  /\ Len(BestPaths) >= 2
  /\ \E t \in DOMAIN wpc : wpc[t] = "merge"

RECURSIVE JoinWith(_, _)
JoinWith(strings, sep) ==
  IF strings = <<>> THEN <<>>
  ELSE IF Len(strings) = 1 THEN strings[1]
  ELSE JoinWith(SubSeq(strings, 1, Len(strings) - 1), sep) \o sep \o strings[Len(strings)]

LabelsOf(g, tour) == [i \in 1..Len(tour) |-> g.index_to_label[tour[i] + 1]]

\* C3: in every state best_paths and best_paths_labels have the same number
\* of entries, no string is twice in best_paths_labels, best_paths_labels[i]
\* is the labels of best_paths[i] joined with "->", and best_paths[i] is its
\* own canonical form.
C3_LabelsMatchPaths ==
  /\ Len(BestPaths) = Len(BestLabels)
  /\ \A i, j \in 1..Len(BestLabels) : i # j => BestLabels[i] # BestLabels[j]
  /\ \A i \in 1..Len(BestPaths) :
       /\ i <= Len(BestLabels)
       /\ BestLabels[i] = JoinWith(LabelsOf(graph, BestPaths[i]), <<kMinus, kGT>>)
       /\ CanonicalizeTour(graph, BestPaths[i]) = BestPaths[i]

C3_Witness ==
  /\ Len(BestPaths) = 2
  /\ Len(BestLabels) = 2
  /\ pc = "done"

\* C4: within an iteration of RunParallel the workers fold their best-sets
\* into the result in the order of their index.
C4_MergeInIndexOrder ==
  \A i, j \in 1..Len(merge_order) : i < j => merge_order[i] < merge_order[j]

\* C5: two RunParallel runs on the same graph, params and thread_count end
\* with the same best_length and the same best_paths_labels sequence.
C5_RunsAgree ==
  (harness = "pair" /\ pc = "done") =>
    /\ result.best_length = result2.best_length
    /\ result.best_paths_labels = result2.best_paths_labels

HoldsMutex(t) == wpc[t] = "merge" /\ best_mutex = t
WorkerRunning(t) == wpc[t] \in {"begin", "ants", "lock", "merge"}
ResultFields(r) == <<r.best_length, r.best_paths, r.best_paths_labels>>

\* C6: in RunParallel every step that writes the result is taken by the one
\* worker that holds best_mutex while no other worker is inside the locked
\* region, or by the calling thread while no worker is running.
C6_ResultWritesExclusive ==
  [][(mode = "par" /\ result' # result) =>
       \/ \E t \in DOMAIN wpc :
            /\ HoldsMutex(t)
            /\ \A u \in DOMAIN wpc : u # t => wpc[u] # "merge"
            /\ \A u \in DOMAIN wpc : u # t => wpc'[u] = wpc[u]
       \/ /\ \A t \in DOMAIN wpc : ~WorkerRunning(t)
          /\ ResultFields(result') = ResultFields(result)]_vars

C6_Witness ==
  \E t, u \in DOMAIN wpc :
    /\ HoldsMutex(t)
    /\ w_idx[t] > 1
    /\ wpc[u] = "lock"

\* C7: RunParallel(params, 0) has returned at once: no iteration, no worker,
\* best_length = +infinity, best_paths and best_paths_labels empty,
\* elapsed_ms = 0.
C7_ZeroThreadsReturnsEmpty ==
  (mode = "par" /\ thread_count = 0) =>
    /\ pc = "done"
    /\ result.best_length = kInfinity
    /\ result.best_paths = <<>>
    /\ result.best_paths_labels = <<>>
    /\ result.elapsed_ms = 0
    /\ iteration = 0
    /\ DOMAIN wpc = {}
    /\ pheromone = <<>>

C7_Witness ==
  /\ mode = "par"
  /\ thread_count = 0
  /\ pc = "done"
  /\ VertexCount(graph) >= 3
  /\ params.ants = MaxAnts

\* C8: on a graph with one vertex every run with at least one thread ends
\* with best_length = +infinity and best_paths empty.
C8_OneVertexNoTour ==
  (pc = "done" /\ VertexCount(graph) = 1 /\ (mode = "seq" \/ thread_count >= 1)) =>
    /\ result.best_length = kInfinity
    /\ result.best_paths = <<>>

\* C9: every entry of the pheromone matrix is finite and >= 1e-12.
C9_PheromoneFiniteAboveFloor ==
  \A i \in DOMAIN pheromone : \A j \in DOMAIN pheromone[i] :
    IsFiniteF(pheromone[i][j]) /\ ~FLessFloor(pheromone[i][j])

\* C10: on a complete 3-vertex graph with symmetric positive weights,
\* RunSequential and RunParallel with T >= 1 on the same params both end with
\* a finite best_length and a non-empty best_paths, and the two best_length
\* differ by less than 1e-3.
C10_SequentialParallelAgree ==
  (harness = "agree" /\ pc = "done" /\ mode = "par") =>
    /\ IsFinite(seq_result.best_length)
    /\ IsFinite(result.best_length)
    /\ seq_result.best_paths # <<>>
    /\ result.best_paths # <<>>
    /\ Abs(seq_result.best_length - result.best_length) < kAgreeTol

C10_Witness ==
  /\ harness = "agree"
  /\ pc = "done"
  /\ mode = "par"
  /\ thread_count = MaxThreads
  /\ params.iterations = MaxIterations
  /\ graph = FromGraphviz(MilliTriangleLines)

LabelsDistinct(g) ==
  \A i, j \in 1..VertexCount(g) :
    i # j => g.index_to_label[i] # g.index_to_label[j]

\* C11: on a graph whose labels are distinct, CanonicalizeTour returns for
\* every rotation and for the reverse of a closed Hamiltonian tour the same
\* closed sequence as for the tour itself.
C11_RotationsAndReverseAgree ==
  (pc \in {"rotation", "reverse"} /\ LabelsDistinct(graph)) =>
    tour_other = tour_canonical

\* C12: CanonicalizeTour applied to what CanonicalizeTour returned, for a
\* tour closed or not, returns it unchanged.
C12_CanonicalizeIdempotent ==
  pc = "again" => tour_other = tour_canonical

C12_Witness ==
  /\ pc = "again"
  /\ Len(tour_in) = 4
  /\ tour_in[1] # tour_in[4]
  /\ tour_canonical # tour_in
  /\ Len(tour_canonical) = 5

\* C13: every graph FromGraphviz builds has Weight(i, i) = 0 for every index
\* i, its labels are in sorted order and the label-to-index map sends
\* labels[i] to i.
C13_DiagonalZeroLabelsIndexed ==
  pc # "start" =>
    \A i \in 0..(VertexCount(graph) - 1) :
      /\ Weight(graph, i, i) = 0
      /\ IndexOf(graph.index_to_label, Label(graph, i)) = i
      /\ \A j \in 0..(VertexCount(graph) - 1) :
           i < j => LexLess(Label(graph, i), Label(graph, j))

RunHasReturned == pc = "done" /\ (mode = "seq" \/ (mode = "par" /\ thread_count >= 1))

HasPositiveFiniteOut(g, v) ==
  \E u \in 0..(VertexCount(g) - 1) : Weight(g, v, u) > 0 /\ Weight(g, v, u) # kInfinity

\* C14: on a graph of two or more vertices one of which has no outgoing edge
\* of finite positive weight, a run that has returned has done all its
\* iterations, no ant has constructed a tour, best_length is +infinity and
\* best_paths and best_paths_labels are empty.
C14_NoOutgoingEdgeNoTour ==
  (/\ RunHasReturned
   /\ VertexCount(graph) >= 2
   /\ \E v \in 0..(VertexCount(graph) - 1) : ~HasPositiveFiniteOut(graph, v)) =>
    /\ iteration = params.iterations
    /\ min_length = kInfinity
    /\ result.best_length = kInfinity
    /\ result.best_paths = <<>>
    /\ result.best_paths_labels = <<>>

\* the only edges of g are those of the directed cycle 0 -> 1 -> 2 -> 3 -> 0
IsSingleCycle4(g) ==
  /\ VertexCount(g) = 4
  /\ \A i, j \in 0..3 :
       IF j = (i + 1) % 4 THEN Weight(g, i, j) > 0 /\ Weight(g, i, j) # kInfinity
       ELSE IF j = i THEN Weight(g, i, j) = 0
       ELSE Weight(g, i, j) = kInfinity

\* C15: on a 4-vertex graph whose only edges are the directed cycle
\* 0 -> 1 -> 2 -> 3 -> 0 with positive finite weights, a run that has
\* returned has best_length equal to the sum of the four weights and exactly
\* one tour in best_paths.
C15_SingleCycleIsFound ==
  (RunHasReturned /\ IsSingleCycle4(graph)) =>
    /\ result.best_length =
         Weight(graph, 0, 1) + Weight(graph, 1, 2) + Weight(graph, 2, 3) + Weight(graph, 3, 0)
    /\ Len(result.best_paths) = 1

Share(t) ==
  (params.ants \div thread_count) + (IF t < params.ants % thread_count THEN 1 ELSE 0)

WorkerPastLoop(t) == wpc[t] \in {"lock", "merge", "done", "joined"}

RECURSIVE ToursOfWorkersBelow(_)
ToursOfWorkersBelow(t) == IF t = 0 THEN 0 ELSE w_ant[t - 1] + ToursOfWorkersBelow(t - 1)

\* C16: in an iteration of RunParallel with T >= 1 worker t constructs no
\* more than floor(ants / T) + (1 if t < ants mod T else 0) tours and exactly
\* that many once it has left its ant loop, the counts of all workers sum to
\* params.ants once all are joined, and a worker whose share is 0 never
\* enters the ant loop, leaves its delta buffer all zero and never takes
\* best_mutex.
C16_AntsPartitionedAmongWorkers ==
  (mode = "par" /\ thread_count >= 1) =>
    /\ \A t \in DOMAIN wpc :
         /\ w_ant[t] <= Share(t)
         /\ WorkerPastLoop(t) => w_ant[t] = Share(t)
         /\ Share(t) = 0 =>
              /\ wpc[t] \notin {"ants", "lock", "merge"}
              /\ local_deltas[t] = ZeroMatrix(graph)
              /\ \A i \in 1..Len(merge_order) : merge_order[i] # t
    /\ (DOMAIN wpc # {} /\ \A t \in DOMAIN wpc : wpc[t] = "joined") =>
         ToursOfWorkersBelow(thread_count) = params.ants

C16_Witness ==
  /\ mode = "par"
  /\ pc = "par_merge"
  /\ \E t, u \in DOMAIN wpc :
       /\ Share(t) = 0
       /\ w_ant[u] >= 1
       /\ local_deltas[u] # ZeroMatrix(graph)
       /\ result.best_paths # <<>>

\* C17 as claimed: when a run has returned, best_length is the smallest
\* length of the successful tours its ants constructed (+infinity if there
\* was none), also when lengths differ by less than 1e-9.
C17_BestLengthIsMinimum ==
  RunHasReturned => result.best_length = min_length

\* C17 as amended: when a run has returned, best_length is +infinity if no
\* ant constructed a successful tour, and otherwise is not below the smallest
\* length constructed and at most 1e-9 above it.
C17_BestLengthWithinGapOfMinimum ==
  RunHasReturned =>
    IF min_length = kInfinity THEN result.best_length = kInfinity
    ELSE /\ result.best_length # kInfinity
         /\ min_length <= result.best_length
         /\ result.best_length <= min_length + kImproveGap

C17_Witness ==
  /\ RunHasReturned
  /\ mode = "par"
  /\ min_length # kInfinity
  /\ result.best_length > min_length
  /\ Len(result.best_paths) = 1

\* C18: a pass of the ant loop whose ConstructSolution returned a dead-end
\* leaves the delta buffers, best_length, best_paths and best_paths_labels
\* (and a worker's thread-local best-set) as they were, advances the ant
\* counter by one and stays in the loop while ants remain, in RunSequential
\* and in every worker of RunParallel.
C18_DeadEndAntChangesNothing ==
  [][/\ (mode = "seq" /\ pc = "seq_ants" /\ pc' = "seq_ants" /\ path_empty') =>
          /\ ant' = ant + 1
          /\ delta' = delta
          /\ result' = result
     /\ \A t \in DOMAIN w_ant :
          (/\ mode = "par"
           /\ t \in DOMAIN w_ant'
           /\ w_ant'[t] # w_ant[t]
           /\ w_path_empty'[t]) =>
            /\ w_ant'[t] = w_ant[t] + 1
            /\ local_deltas' = local_deltas
            /\ delta' = delta
            /\ result' = result
            /\ thread_best_length' = thread_best_length
            /\ thread_best_paths' = thread_best_paths
            /\ w_ant'[t] < Share(t) => wpc'[t] = "ants"]_vars

C18_Witness ==
  /\ mode = "seq"
  /\ pc = "seq_ants"
  /\ path_empty
  /\ ant = MaxAnts
  /\ result.best_paths # <<>>
  /\ delta # ZeroMatrix(graph)

AllWorkersJoined ==
  /\ thread_count >= 1
  /\ DOMAIN wpc = 0..(thread_count - 1)
  /\ \A t \in DOMAIN wpc : wpc[t] = "joined"

\* C19: in RunParallel a step writes the pheromone matrix, or counts an
\* iteration, only as the set-up of the call before any worker exists, or
\* once per iteration after all T workers of that iteration are joined; so
\* no worker runs while the matrix is written and the workers of the next
\* iteration read the matrix as that update left it.
C19_PheromoneWrittenAfterJoin ==
  [][(mode' = "par" /\ (pheromone' # pheromone \/ iteration' # iteration)) =>
       \/ /\ DOMAIN wpc = {}
          /\ DOMAIN wpc' = {}
          /\ iteration' = 0
          /\ pc' = "par_loop"
       \/ /\ AllWorkersJoined
          /\ iteration' = iteration + 1
          /\ iteration' <= params.iterations
          /\ DOMAIN wpc' = {}]_vars

C19_Witness ==
  /\ mode = "par"
  /\ iteration >= 1
  /\ thread_count = MaxThreads
  /\ pheromone # InitialPheromone(graph)
  /\ \E t \in DOMAIN wpc : wpc[t] = "ants"

\* the state of the run in the terms of the state machine READY ->
\* CONSTRUCTING -> DEPOSITED -> UPDATED -> READY | DONE
Phase ==
  IF pc = "start" THEN "NONE"
  ELSE IF pc \in {"seq_loop", "par_loop"} THEN "READY"
  ELSE IF pc = "seq_ants" THEN (IF ant < params.ants THEN "CONSTRUCTING" ELSE "DEPOSITED")
  ELSE IF pc \in {"par_spawn", "par_join", "par_merge"} THEN "CONSTRUCTING"
  ELSE IF pc = "par_update" THEN "DEPOSITED"
  ELSE "DONE"

\* C20: every RunSequential run and every RunParallel run with T >= 1 that
\* has begun reaches DONE in the end; its phases follow READY ->
\* CONSTRUCTING -> DEPOSITED -> (UPDATED) READY, an iteration is counted at
\* each update and DONE is entered from READY with exactly params.iterations
\* counted; and when it has returned no worker is left and best_mutex is
\* free.
C20_RunsReachDone ==
  /\ [](RunHasReturned =>
          /\ iteration = params.iterations
          /\ DOMAIN wpc = {}
          /\ best_mutex = NoOwner)
  /\ [][Phase' # Phase =>
          \/ Phase = "NONE" /\ Phase' = "READY" /\ iteration' = 0
          \/ Phase = "NONE" /\ Phase' = "DONE" /\ mode' = "par" /\ thread_count' = 0
          \/ Phase = "READY" /\ Phase' = "CONSTRUCTING" /\ iteration' = iteration
          \/ Phase = "CONSTRUCTING" /\ Phase' = "DEPOSITED" /\ iteration' = iteration
          \/ Phase = "DEPOSITED" /\ Phase' = "READY" /\ iteration' = iteration + 1
          \/ Phase = "READY" /\ Phase' = "DONE" /\ iteration = params.iterations]_vars
  /\ ((mode \in {"seq", "par"}) ~> (pc = "done"))

C20_Witness ==
  /\ RunHasReturned
  /\ mode = "par"
  /\ thread_count = MaxThreads
  /\ params.iterations = MaxIterations
  /\ params.ants = MaxAnts
  /\ result.best_paths # <<>>

\* the worker whose pass of the ant loop (lines 84-97) a step is
AntPassOf(t) ==
  /\ t \in DOMAIN wpc
  /\ wpc[t] = "ants"
  /\ w_ant'[t] = w_ant[t] + 1

\* C21: while the workers of an iteration run, a local delta buffer changes
\* only in a pass of the ant loop of its own worker, which leaves every other
\* buffer alone; the delta merged after the join is, entry by entry, what
\* one shared buffer holds after the same deposits, and it is that delta the
\* pheromone update applies.
C21_MergedDeltaIsSharedDelta ==
  [][/\ (pc \in {"par_spawn", "par_join"} /\ local_deltas' # local_deltas) =>
          \E t \in DOMAIN wpc :
             /\ AntPassOf(t)
             /\ \A u \in DOMAIN local_deltas \ {t} : local_deltas'[u] = local_deltas[u]
     /\ (pc = "par_merge" /\ pc' = "par_update") => delta' = shared_delta
     /\ (pc = "par_update" /\ pc' = "par_loop") =>
          /\ delta = shared_delta
          /\ pheromone' = Evaporate(graph, params, pheromone, shared_delta)]_vars

C21_Witness ==
  /\ pc = "par_update"
  /\ thread_count = MaxThreads
  /\ \A t \in Threads : local_deltas[t] # ZeroMatrix(graph)
  /\ \E t \in Threads : local_deltas[t] # delta
  /\ delta = shared_delta

\* a thread is about to call ConstructSolution (lines 36 and 85)
CallsConstructSolution == SeqAntDue \/ \E t \in DOMAIN wpc : wpc[t] = "ants"

\* C22: every successful tour ConstructSolution can return has only edges of
\* strictly positive finite weight, the closing edge included, so its length
\* is positive and its deposit q / length is finite.
C22_TourEdgesPositiveFinite ==
  CallsConstructSolution =>
    \A path \in ConstructSolution(graph, params, pheromone) :
       path.path # <<>> =>
         /\ \A i \in 1..(Len(path.path) - 1) :
              LET weight == Weight(graph, path.path[i], path.path[i + 1])
              IN  weight > 0 /\ weight # kInfinity
         /\ path.length > 0
         /\ FDiv(params.q, path.length).k = "fin"

====
